---- MODULE Spec2Model ----
(***************************************************************************)
(* Model of pcdsdevices/epics/aerotech.py: the AeroBase motor facade.      *)
(*                                                                         *)
(* The facade owns eight signal components bound to prefix + suffix, and   *)
(* offers move / enable / disable / clear / reconfig plus the enabled and  *)
(* faulted properties.  The signal layer (EpicsSignal.set / .value) and    *)
(* the base positioner (EpicsMotor.move, configuration_attrs) are imported *)
(* collaborators: a set() issues a put that completes asynchronously, and  *)
(* .value is the last-known value of the process variable.                 *)
(***************************************************************************)
EXTENDS Integers, Sequences, FiniteSets, TLC

\* ------------------------------------------------------------------ bounds
\* Number of facade calls (methods and property reads) in one behaviour.
MaxCalls == 3
\* Process-variable values range over 0..MaxValue.
MaxValue == 2

Values == 0..MaxValue
\* Values a process variable of the component can take: the power flag and
\* the fault word range over Values, the other readbacks over two values.
Domain(attr) == IF attr \in {"power", "axis_fault"} THEN Values ELSE {0, 1}
Prefixes == {"XYZ", "MOT:01"}
Positions == {0, 5}
Kwargs == [wait : BOOLEAN]
NoKwargs == [wait |-> FALSE]

\* ------------------------------------------------------- component table
Attrs == {"power", "retries", "retries_max", "retries_deadband",
          "axis_fault", "axis_status", "clear_error", "config"}

\* Process variables whose value the controller changes on its own.
Monitored == {"power", "axis_fault", "axis_status", "retries"}

\* Second argument of each Component(...) declaration.
SuffixWrongSeparator(attr) ==
    CASE attr = "power"            -> ":CNEN"
      [] attr = "retries"          -> ":RCNT"
      [] attr = "retries_max"      -> ":RTRY"
      [] attr = "retries_deadband" -> ":RDBD"
      [] attr = "axis_fault"       -> ":AXIS_FAULT"
      [] attr = "axis_status"      -> ":AXIS_STATUS"
      [] attr = "clear_error"      -> ":CLEAR"
      [] attr = "config"           -> ":CONFIG"

Suffix(attr) ==
    CASE attr = "power"            -> ".CNEN"
      [] attr = "retries"          -> ".RCNT"
      [] attr = "retries_max"      -> ".RTRY"
      [] attr = "retries_deadband" -> ".RDBD"
      [] attr = "axis_fault"       -> ":AXIS_FAULT"
      [] attr = "axis_status"      -> ":AXIS_STATUS"
      [] attr = "clear_error"      -> ":CLEAR"
      [] attr = "config"           -> ":CONFIG"

\* First argument of each Component(...) declaration:
\* EpicsSignalRO is "ro", EpicsSignal is "rw".
SignalClass(attr) ==
    IF attr \in {"retries", "axis_fault", "axis_status"} THEN "ro" ELSE "rw"

\* Component: the signal of an attribute is bound to prefix + suffix.
ComponentAddress(pfx, attr) == pfx \o Suffix(attr)

\* configuration_attrs of the base positioner before AeroBase.__init__ adds
\* to it.
BaseConfigurationAttrs == <<"motor_egu">>

\* AeroBase.__init__: self.configuration_attrs.append("power")
AeroBaseInitNoAppend(base) == base

AeroBaseInit(base) == Append(base, "power")

\* ------------------------------------------------------------------ state
VARIABLES
    prefix,              \* constructor argument
    address,             \* attr -> process-variable address of its signal
    mode,                \* attr -> "ro" / "rw"
    configuration_attrs, \* the positioner's configuration-attribute registry
    value,               \* attr -> last-known value of the signal (.value)
    inflight,            \* puts issued by set() and not yet completed
    ncalls,              \* number of facade calls made so far
    ret,                 \* the last facade call and its outcome
    set_calls,           \* signal set() calls made by the last facade call
    move_calls,          \* base-positioner move() calls made by the last call
    scenario             \* progress of: move raises, enable(), power=1, move

vars == <<prefix, address, mode, configuration_attrs, value, inflight,
          ncalls, ret, set_calls, move_calls, scenario>>

bindings == <<prefix, address, mode, configuration_attrs>>

Range(s) == {s[i] : i \in 1..Len(s)}

\* Python truth value of a number: bool(v)
PyBool(v) == v # 0

\* ------------------------------------------------------------- properties
\* AeroBase.enabled: bool(self.power.value)
enabledOnlyOne == value["power"] = 1

\* AeroBase.enabled counting a pending enable() as already in effect.
enabledOptimistic ==
    \/ PyBool(value["power"])
    \/ \E i \in 1..Len(inflight) :
          inflight[i].attr = "power" /\ inflight[i].val = 1

enabled == PyBool(value["power"])

\* AeroBase.faulted: bool(self.axis_fault.value)
faultedReadsStatus == PyBool(value["axis_status"])

faulted == PyBool(value["axis_fault"])

\* ------------------------------------------------------------ collaborators
\* EpicsSignal.set(val): issues a put, returns its status object at once.
SignalSet(attr, val) ==
    [handle  |-> ncalls + 1,
     request |-> [attr |-> attr, val |-> val, handle |-> ncalls + 1]]

\* EpicsMotor.move(position, **kwargs): either accepts the request and
\* returns its status object, or raises (ValueError on an invalid position).
SuperMove(position, kwargs) ==
    {[position |-> position, kwargs |-> kwargs, outcome |-> o,
      handle |-> IF o = "handle" THEN ncalls + 1 ELSE 0] :
        o \in {"handle", "ValueError"}}

Call(op, position, kwargs, outcome, handle, result) ==
    [op |-> op, position |-> position, kwargs |-> kwargs,
     outcome |-> outcome, handle |-> handle, result |-> result]

\* ------------------------------------------------------------------- Init
Init ==
    /\ prefix \in Prefixes
    /\ address = [a \in Attrs |-> ComponentAddress(prefix, a)]
    /\ mode = [a \in Attrs |-> SignalClass(a)]
    /\ configuration_attrs = AeroBaseInit(BaseConfigurationAttrs)
    /\ value \in [Attrs -> Values]
    /\ \A a \in Monitored : value[a] \in Domain(a)
    /\ \A a \in Attrs \ Monitored : value[a] = 0
    /\ inflight = <<>>
    /\ ncalls = 0
    /\ ret = Call("none", 0, NoKwargs, "none", 0, FALSE)
    /\ set_calls = <<>>
    /\ move_calls = <<>>
    /\ scenario = 0

\* ------------------------------------------------- scenario bookkeeping
\* 0: nothing yet; 1: move(5) raised MotorDisabled with power reading 0;
\* 2: enable() was called after that; 3: move(5) was then called while
\* power read 1.  Phase 3 lasts until the next facade call.
ScenarioAfterMove(position, outcome) ==
    IF scenario = 2 /\ value["power"] = 1 /\ position = 5 THEN 3
    ELSE IF outcome = "MotorDisabled" /\ value["power"] = 0 /\ position = 5
         THEN 1
    ELSE IF scenario = 3 THEN 0
    ELSE scenario

ScenarioAfterEnable ==
    IF scenario = 1 THEN 2 ELSE IF scenario = 3 THEN 0 ELSE scenario

ScenarioAfterOther == IF scenario = 3 THEN 0 ELSE scenario

\* ----------------------------------------------------------- facade calls
\* AeroBase.move with the guard inverted.
MoveInvertedGuard(position, kwargs) ==
    /\ ncalls < MaxCalls
    /\ ncalls' = ncalls + 1
    /\ IF enabled
       THEN /\ ret' = Call("move", position, kwargs, "MotorDisabled", 0, FALSE)
            /\ move_calls' = <<>>
       ELSE \E r \in SuperMove(position, kwargs) :
            /\ move_calls' = <<r>>
            /\ ret' = Call("move", position, kwargs, r.outcome, r.handle, FALSE)
    /\ set_calls' = <<>>
    /\ scenario' = ScenarioAfterMove(position, ret'.outcome)
    /\ UNCHANGED <<bindings, value, inflight>>

\* AeroBase.move passing default keyword arguments to the base positioner.
MoveDropsKwargs(position, kwargs) ==
    /\ ncalls < MaxCalls
    /\ ncalls' = ncalls + 1
    /\ IF ~enabled
       THEN /\ ret' = Call("move", position, kwargs, "MotorDisabled", 0, FALSE)
            /\ move_calls' = <<>>
       ELSE \E r \in SuperMove(position, NoKwargs) :
            /\ move_calls' = <<r>>
            /\ ret' = Call("move", position, kwargs, r.outcome, r.handle, FALSE)
    /\ set_calls' = <<>>
    /\ scenario' = ScenarioAfterMove(position, ret'.outcome)
    /\ UNCHANGED <<bindings, value, inflight>>

\* AeroBase.move also refusing to move a faulted axis.
MoveChecksFault(position, kwargs) ==
    /\ ncalls < MaxCalls
    /\ ncalls' = ncalls + 1
    /\ IF ~enabled \/ faulted
       THEN /\ ret' = Call("move", position, kwargs, "MotorDisabled", 0, FALSE)
            /\ move_calls' = <<>>
       ELSE \E r \in SuperMove(position, kwargs) :
            /\ move_calls' = <<r>>
            /\ ret' = Call("move", position, kwargs, r.outcome, r.handle, FALSE)
    /\ set_calls' = <<>>
    /\ scenario' = ScenarioAfterMove(position, ret'.outcome)
    /\ UNCHANGED <<bindings, value, inflight>>

\* AeroBase.move(position, *args, **kwargs)
Move(position, kwargs) ==
    /\ ncalls < MaxCalls
    /\ ncalls' = ncalls + 1
    /\ IF ~enabled
       THEN \* raise MotorDisabled(err)
            /\ ret' = Call("move", position, kwargs, "MotorDisabled", 0, FALSE)
            /\ move_calls' = <<>>
       ELSE \* return super().move(position, *args, **kwargs)
            \E r \in SuperMove(position, kwargs) :
            /\ move_calls' = <<r>>
            /\ ret' = Call("move", position, kwargs, r.outcome, r.handle, FALSE)
    /\ set_calls' = <<>>
    /\ scenario' = ScenarioAfterMove(position, ret'.outcome)
    /\ UNCHANGED <<bindings, value, inflight>>

\* A facade method whose body is "return self.<attr>.set(val)".
SetAndReturn(op, attr, val) ==
    LET st == SignalSet(attr, val) IN
    /\ ncalls < MaxCalls
    /\ ncalls' = ncalls + 1
    /\ set_calls' = <<st.request>>
    /\ inflight' = Append(inflight, st.request)
    /\ ret' = Call(op, 0, NoKwargs, "handle", st.handle, FALSE)
    /\ move_calls' = <<>>
    /\ UNCHANGED <<bindings, value>>

\* AeroBase.enable(): return self.power.set(1)
Enable ==
    /\ SetAndReturn("enable", "power", 1)
    /\ scenario' = ScenarioAfterEnable

\* AeroBase.disable writing 1.
DisableWritesOne ==
    /\ SetAndReturn("disable", "power", 1)
    /\ scenario' = ScenarioAfterOther

\* AeroBase.disable(): return self.power.set(0)
Disable ==
    /\ SetAndReturn("disable", "power", 0)
    /\ scenario' = ScenarioAfterOther

\* AeroBase.clear writing to the config signal.
ClearWritesConfig ==
    /\ SetAndReturn("clear", "config", 1)
    /\ scenario' = ScenarioAfterOther

\* AeroBase.clear(): return self.clear_error.set(1)
Clear ==
    /\ SetAndReturn("clear", "clear_error", 1)
    /\ scenario' = ScenarioAfterOther

\* AeroBase.reconfig(): return self.config.set(1)
Reconfig ==
    /\ SetAndReturn("reconfig", "config", 1)
    /\ scenario' = ScenarioAfterOther

\* Reading a property: no signal is set, nothing is requested.
ReadProperty(op, result) ==
    /\ ncalls < MaxCalls
    /\ ncalls' = ncalls + 1
    /\ ret' = Call(op, 0, NoKwargs, "value", 0, result)
    /\ set_calls' = <<>>
    /\ move_calls' = <<>>
    /\ scenario' = ScenarioAfterOther
    /\ UNCHANGED <<bindings, value, inflight>>

\* Reading AeroBase.enabled
ReadEnabled == ReadProperty("enabled", enabled)

\* Reading AeroBase.faulted
ReadFaulted == ReadProperty("faulted", faulted)

\* ------------------------------------------------------------ environment
RemoveAt(s, i) == SubSeq(s, 1, i - 1) \o SubSeq(s, i + 1, Len(s))

\* Puts on one process variable complete in the order they were issued.
FirstForAttr(i) == \A j \in 1..(i - 1) : inflight[j].attr # inflight[i].attr

\* A pending put completes: the process variable takes the value and the
\* signal's last-known value follows.
PutComplete(i) ==
    /\ i \in 1..Len(inflight)
    /\ FirstForAttr(i)
    /\ value' = [value EXCEPT ![inflight[i].attr] = inflight[i].val]
    /\ inflight' = RemoveAt(inflight, i)
    /\ UNCHANGED <<bindings, ncalls, ret, set_calls, move_calls,
                   scenario>>

\* A pending put fails (rejected, timed out): the value does not change.
PutFail(i) ==
    /\ i \in 1..Len(inflight)
    /\ FirstForAttr(i)
    /\ inflight' = RemoveAt(inflight, i)
    /\ UNCHANGED <<bindings, value, ncalls, ret, set_calls,
                   move_calls, scenario>>

\* The controller (or another client) changes a process variable and the
\* monitor updates the signal's last-known value.
Monitor(attr, v) ==
    /\ value[attr] # v
    /\ value' = [value EXCEPT ![attr] = v]
    /\ UNCHANGED <<bindings, inflight, ncalls, ret, set_calls,
                   move_calls, scenario>>

Next ==
    \/ \E position \in Positions, kwargs \in Kwargs : Move(position, kwargs)
    \/ Enable
    \/ Disable
    \/ Clear
    \/ Reconfig
    \/ ReadEnabled
    \/ ReadFaulted
    \/ \E i \in 1..MaxCalls : PutComplete(i)
    \/ \E i \in 1..MaxCalls : PutFail(i)
    \/ \E attr \in Monitored : \E v \in Domain(attr) : Monitor(attr, v)

Spec == Init /\ [][Next]_vars

\* ----------------------------------------------------------------- claims
\* A step that is a facade call of the given operation.
CallStep(op) == ncalls' = ncalls + 1 /\ ret'.op = op

PowerPut(val, handle) == [attr |-> "power", val |-> val, handle |-> handle]

\* C1: a move called while the last-known power value is 0 raises
\* MotorDisabled, makes no call to the base positioner's move and sets no
\* signal.
C1_DisabledMoveRaises ==
    [][(CallStep("move") /\ value["power"] = 0) =>
         /\ ret'.outcome = "MotorDisabled"
         /\ move_calls' = <<>>
         /\ set_calls' = <<>>
         /\ inflight' = inflight
         /\ value' = value]_vars

C1_Witness ==
    /\ ret.op = "move"
    /\ ret.outcome = "MotorDisabled"
    /\ value["power"] = 0
    /\ move_calls = <<>>
    /\ inflight = <<>>

\* C2: a move called while the last-known power value is nonzero makes
\* exactly one call to the base positioner's move, with the position and
\* keyword arguments it was given, and its outcome is that call's outcome:
\* the handle the base positioner returned.
C2_EnabledMoveDelegates ==
    [][(CallStep("move") /\ value["power"] # 0) =>
         /\ Len(move_calls') = 1
         /\ move_calls'[1].position = ret'.position
         /\ move_calls'[1].kwargs = ret'.kwargs
         /\ ret'.outcome = move_calls'[1].outcome
         /\ ret'.handle = move_calls'[1].handle
         /\ set_calls' = <<>>
         /\ inflight' = inflight]_vars

C2_Witness ==
    /\ ret.op = "move"
    /\ ret.outcome = "handle"
    /\ ret.kwargs.wait
    /\ ret.position = 5
    /\ value["power"] = 2
    /\ Len(move_calls) = 1
    /\ move_calls[1].handle = ret.handle
    /\ move_calls[1].kwargs.wait

\* C3: after move(5) raised MotorDisabled with power reading 0 and the
\* caller called enable(), which set power to 1, a move(5) called while
\* power reads 1 is delegated to the base positioner.
C3_MoveAfterEnable ==
    /\ (scenario = 3 =>
          /\ ret.op = "move"
          /\ ret.position = 5
          /\ ret.outcome # "MotorDisabled"
          /\ Len(move_calls) = 1
          /\ move_calls[1].position = 5
          /\ move_calls[1].outcome = ret.outcome)
    /\ ((scenario = 2 /\ ret.op = "enable") =>
          set_calls = <<PowerPut(1, ret.handle)>>)

C3_Witness ==
    /\ prefix = "MOT:01"
    /\ scenario = 3
    /\ ret.outcome = "handle"
    /\ value["power"] = 1
    /\ inflight = <<>>

\* C4: enable() makes exactly one set() call, of 1 on power, and disable()
\* exactly one, of 0 on power; each returns that call's handle, calls no
\* move, and can be called in every state.
C4_EnableDisableWritePower ==
    /\ (ret.op = "enable" =>
          /\ set_calls = <<PowerPut(1, ret.handle)>>
          /\ ret.outcome = "handle"
          /\ move_calls = <<>>)
    /\ (ret.op = "disable" =>
          /\ set_calls = <<PowerPut(0, ret.handle)>>
          /\ ret.outcome = "handle"
          /\ move_calls = <<>>)
    /\ (ncalls < MaxCalls => (ENABLED Enable) /\ (ENABLED Disable))

C4_Witness ==
    /\ ret.op = "disable"
    /\ set_calls = <<PowerPut(0, ret.handle)>>
    /\ PowerPut(0, ret.handle) \in Range(inflight)
    /\ value["power"] = 0
    /\ value["axis_fault"] # 0
    /\ \E i \in 1..Len(inflight) : inflight[i].val = 1

\* C5: reading enabled gives TRUE exactly when the last-known power value is
\* nonzero, and sets no signal, requests no move and changes no value.
C5_EnabledIffPowerNonzero ==
    [][CallStep("enabled") =>
         /\ ret'.outcome = "value"
         /\ ret'.result = (value["power"] # 0)
         /\ set_calls' = <<>>
         /\ move_calls' = <<>>
         /\ inflight' = inflight
         /\ value' = value
         /\ bindings' = bindings]_vars

C5_Witness ==
    /\ ret.op = "enabled"
    /\ ret.result
    /\ value["power"] = 2

\* C6: reading faulted gives TRUE exactly when the last-known axis_fault
\* value is nonzero, and sets no signal.
C6_FaultedIffAxisFaultNonzero ==
    [][CallStep("faulted") =>
         /\ ret'.outcome = "value"
         /\ ret'.result = (value["axis_fault"] # 0)
         /\ set_calls' = <<>>
         /\ inflight' = inflight
         /\ value' = value]_vars

C6_Witness ==
    /\ ret.op = "faulted"
    /\ ret.result
    /\ value["axis_fault"] = 2
    /\ value["axis_status"] = 0

\* C7: clear() makes exactly one set() call, of 1 on clear_error, and
\* reconfig() exactly one, of 1 on config; each returns that call's handle
\* and neither sets power nor calls move.
C7_ClearReconfigWriteOne ==
    /\ (ret.op = "clear" =>
          /\ set_calls =
               <<[attr |-> "clear_error", val |-> 1, handle |-> ret.handle]>>
          /\ ret.outcome = "handle"
          /\ move_calls = <<>>)
    /\ (ret.op = "reconfig" =>
          /\ set_calls =
               <<[attr |-> "config", val |-> 1, handle |-> ret.handle]>>
          /\ ret.outcome = "handle"
          /\ move_calls = <<>>)

C7_Witness ==
    /\ ret.op = "clear"
    /\ Len(set_calls) = 1
    /\ set_calls[1].attr = "clear_error"
    /\ set_calls[1] \in Range(inflight)
    /\ \E i \in 1..Len(inflight) : inflight[i].attr = "config"

\* C8: the eight signals are bound to the prefix followed by .CNEN, .RCNT,
\* .RTRY, .RDBD, :AXIS_FAULT, :AXIS_STATUS, :CLEAR and :CONFIG; retries,
\* axis_fault and axis_status are read-only; no step changes an address.
C8_Addresses ==
    /\ [](/\ address["power"] = prefix \o ".CNEN"
          /\ address["retries"] = prefix \o ".RCNT"
          /\ address["retries_max"] = prefix \o ".RTRY"
          /\ address["retries_deadband"] = prefix \o ".RDBD"
          /\ address["axis_fault"] = prefix \o ":AXIS_FAULT"
          /\ address["axis_status"] = prefix \o ":AXIS_STATUS"
          /\ address["clear_error"] = prefix \o ":CLEAR"
          /\ address["config"] = prefix \o ":CONFIG"
          /\ DOMAIN address = Attrs
          /\ Cardinality(Attrs) = 8
          /\ mode["retries"] = "ro"
          /\ mode["axis_fault"] = "ro"
          /\ mode["axis_status"] = "ro")
    /\ [][address' = address /\ mode' = mode /\ prefix' = prefix]_vars

C8_Witness ==
    /\ prefix = "XYZ"
    /\ address["power"] = "XYZ.CNEN"
    /\ address["axis_fault"] = "XYZ:AXIS_FAULT"
    /\ ncalls = MaxCalls
    /\ ret.op = "reconfig"

\* C9: "power" is in configuration_attrs after construction and after every
\* sequence of facade calls.
C9_PowerInConfigurationAttrs == "power" \in Range(configuration_attrs)

C9_Witness ==
    /\ "power" \in Range(configuration_attrs)
    /\ ncalls = MaxCalls
    /\ ret.op = "move"
    /\ inflight # <<>>

\* C10: a move raises MotorDisabled exactly when the last-known power value
\* is 0, whatever axis_fault, axis_status and the retry counters read; in
\* particular it raises while an enable() is pending and power still reads 0.
C10_MoveDependsOnlyOnPower ==
    [][CallStep("move") =>
         /\ (ret'.outcome = "MotorDisabled") <=> (value["power"] = 0)
         /\ (value["power"] # 0 /\ value["axis_fault"] # 0) =>
               Len(move_calls') = 1
         /\ (/\ value["power"] = 0
             /\ \E i \in 1..Len(inflight) :
                  inflight[i].attr = "power" /\ inflight[i].val = 1) =>
               (ret'.outcome = "MotorDisabled" /\ move_calls' = <<>>)]_vars

C10_Witness ==
    /\ ret.op = "move"
    /\ ret.outcome = "MotorDisabled"
    /\ value["power"] = 0
    /\ \E i \in 1..Len(inflight) :
         inflight[i].attr = "power" /\ inflight[i].val = 1
====
